---- MODULE Spec2Model ----
(***************************************************************************)
(* Model of the Geode Go client connector: the connection Pool             *)
(* (connector/pool.go), the message-exchange engine doOperation /          *)
(* doOperationWithConnection / readRawMessage (connector/protobuf.go).     *)
(***************************************************************************)
EXTENDS Integers, Naturals, Sequences, FiniteSets, TLC

(***************************************************************************)
(* Bounds of the model.                                                    *)
(***************************************************************************)
\* connection objects (GeodeConnection) that can ever be allocated
MaxConns == 2
\* providers that can ever be registered with AddServer
MaxProviders == 2
\* concurrent callers of the pool (goroutines)
NumThreads == 2

Conns == 1..MaxConns
Provs == 1..MaxProviders
Threads == 1..NumThreads

\* the nil *GeodeConnection
NoConn == 0
\* the unlocked state of the embedded sync.RWMutex
NoThread == 0

VARIABLES
    \* Pool fields (pool.go:24-31)
    recentConnections,      \* []*GeodeConnection, a sequence of connection ids
    providers,              \* []ConnectionProvider, a sequence of provider ids
    authenticationEnabled,  \* bool
    lock,                   \* holder of the write lock of the RWMutex, or NoThread
    \* GeodeConnection fields, per connection object
    inUse,
    handshakeDone,
    authenticationDone,
    closed,                 \* rawConn.Close() has been called
    \* expvar counters (pool.go:10-12)
    activeConnections,
    connectionsCreated,
    discardedConnections,
    \* allocation of objects
    nextConn,               \* number of GeodeConnection objects allocated so far
    nextProv,               \* number of providers allocated so far
    \* callers
    pc,                     \* position of each caller
    acq,                    \* connections the caller's GetConnection calls returned
    outs,                   \* doOperation: outcome of each attempt so far
    depth,                  \* doOperation: deferred ReturnConnection calls still to run
    result,                 \* the error (or "ok") of the caller's last call
    \* an AddConnection / AddServer call in flight on another goroutine
    addSnap,                \* the recentConnections slice AddConnection has loaded
    provSnap,               \* the providers slice AddServer has loaded
    \* one call of readRawMessage on a connection
    rdLen,                  \* length of the payload of the response the server sends
    rdFirst,                \* bytes the first connection.Read delivers at most
    rdAvail,                \* bytes of the response that arrive before the stream ends
    rdEnd,                  \* how the stream ends after them: the text of the read error
    rdOut,                  \* what readRawMessage returned, once it has
    \* one EncodeValue / DecodeValue round trip
    cvIn,                   \* the Go value handed to EncodeValue
    cvRef,                  \* the template handed to DecodeValue
    cvEnc,                  \* what EncodeValue returned, once it has
    cvOut,                  \* what DecodeValue returned, once it has
    \* one GetAll call
    gaResp,                 \* the GetAllResponse the server sends
    gaOut,                  \* what GetAll returned, once it has
    \* history
    bothCalled              \* some connection was both discarded and returned

poolVars == <<recentConnections, providers, authenticationEnabled, lock>>
connVars == <<inUse, handshakeDone, authenticationDone, closed>>
counterVars == <<activeConnections, connectionsCreated, discardedConnections>>
allocVars == <<nextConn, nextProv>>
callerVars == <<pc, acq, outs, depth, result>>
histVars == <<bothCalled>>

raceVars == <<addSnap, provSnap>>
readVars == <<rdLen, rdFirst, rdAvail, rdEnd, rdOut>>
codecVars == <<cvIn, cvRef, cvEnc, cvOut, gaResp, gaOut>>

vars == <<poolVars, connVars, counterVars, allocVars, callerVars, raceVars, readVars,
          codecVars, histVars>>

(***************************************************************************)
(* Helpers on slices.                                                      *)
(***************************************************************************)
Range(s) == {s[i] : i \in 1..Len(s)}

Max(S) == CHOOSE x \in S : \A y \in S : y <= x

Min(S) == CHOOSE x \in S : \A y \in S : x <= y

Last(s) == s[Len(s)]

\* append(s[:i], s[i+1:]...) with the 1-based index i
RemoveAt(s, i) == SubSeq(s, 1, i - 1) \o SubSeq(s, i + 1, Len(s))

(***************************************************************************)
(* Pool.GetConnection, the parts of its body.                              *)
(***************************************************************************)
\* a scan that forgets the inUse test: the last pooled connection
lastIdleAny(recent, use) ==
    IF recent = <<>> THEN NoConn ELSE Last(recent)

\* a GetConnection that leaves out the scan of the pooled connections
lastIdleNone(recent, use) == NoConn

\* a scan that stops at the first connection that is not in use
lastIdleFirst(recent, use) ==
    LET idle == {i \in 1..Len(recent) : ~use[recent[i]]}
    IN  IF idle = {} THEN NoConn ELSE recent[Min(idle)]

\* pool.go:69-73: the scan keeps the last connection that is not in use
lastIdle(recent, use) ==
    LET idle == {i \in 1..Len(recent) : ~use[recent[i]]}
    IN  IF idle = {} THEN NoConn ELSE recent[Max(idle)]

\* a walk that forgets to remove the providers that return nil
RECURSIVE walkProvidersKeep(_, _, _)
walkProvidersKeep(provs, i, yields) ==
    IF i = 0 THEN [providers |-> provs, found |-> FALSE]
    ELSE IF yields[i] THEN [providers |-> provs, found |-> TRUE]
    ELSE walkProvidersKeep(provs, i - 1, yields)

\* a walk that asks the providers oldest first
walkProvidersOldestFirst(provs, i, yields) ==
    LET ys == {j \in 1..i : yields[j]}
    IN  IF ys = {} THEN [providers |-> <<>>, found |-> FALSE]
        ELSE [providers |-> SubSeq(provs, Min(ys), Len(provs)), found |-> TRUE]

\* pool.go:76-82: providers are asked from the last one down; yields[i] says
\* whether provider i returns a connection; one that returns nil is removed
RECURSIVE walkProviders(_, _, _)
walkProviders(provs, i, yields) ==
    IF i = 0 THEN [providers |-> provs, found |-> FALSE]
    ELSE IF yields[i] THEN [providers |-> provs, found |-> TRUE]
    ELSE walkProviders(RemoveAt(provs, i), i - 1, yields)

\* a discard that leaves the connection in the slice
discardNothing(recent, gConn) == recent

\* pool.go:124-129: the first occurrence of gConn is removed
discardConnection(recent, gConn) ==
    LET hits == {i \in 1..Len(recent) : recent[i] = gConn}
    IN  IF hits = {} THEN recent ELSE RemoveAt(recent, Min(hits))

\* GeodeConnection.handshake: nothing to do once handshakeDone, otherwise the
\* exchange with the server succeeds (ok) or fails
handshakeFails(gConn, ok) == ~handshakeDone[gConn] /\ ~ok

\* GeodeConnection.authenticate: nothing to do once authenticationDone
authenticateFails(gConn, ok) == ~authenticationDone[gConn] /\ ~ok

\* a GetConnection that leaves out the authentication step of pool.go:100-106
GetConnectionSkipsAuthentication(yields, hsOK, authOK) ==
    LET pooled == lastIdle(recentConnections, inUse)
        walk == IF pooled = NoConn
                THEN walkProviders(providers, Len(providers), yields)
                ELSE [providers |-> providers, found |-> FALSE]
        fresh == nextConn + 1
        gConn == IF pooled # NoConn THEN pooled
                 ELSE IF walk.found THEN fresh ELSE NoConn
        recent1 == IF walk.found THEN Append(recentConnections, fresh)
                   ELSE recentConnections
        err == IF gConn = NoConn THEN "unavailable"
               ELSE IF handshakeFails(gConn, hsOK) THEN "handshake"
               ELSE "none"
    IN  [selected |-> gConn,
         conn |-> IF err = "none" THEN gConn ELSE NoConn,
         err |-> err,
         created |-> walk.found,
         authenticated |-> FALSE,
         providers |-> walk.providers,
         recent |-> IF err = "handshake"
                    THEN discardConnection(recent1, gConn) ELSE recent1]

\* pool.go:61-112: the body of GetConnection between Lock and Unlock, as the
\* record of what it selected, what it returns and the pool it leaves
GetConnection(yields, hsOK, authOK) ==
    LET pooled == lastIdle(recentConnections, inUse)
        walk == IF pooled = NoConn
                THEN walkProviders(providers, Len(providers), yields)
                ELSE [providers |-> providers, found |-> FALSE]
        fresh == nextConn + 1
        gConn == IF pooled # NoConn THEN pooled
                 ELSE IF walk.found THEN fresh ELSE NoConn
        recent1 == IF walk.found THEN Append(recentConnections, fresh)
                   ELSE recentConnections
        err == IF gConn = NoConn THEN "unavailable"
               ELSE IF handshakeFails(gConn, hsOK) THEN "handshake"
               ELSE IF authenticationEnabled /\ authenticateFails(gConn, authOK)
                    THEN "authentication"
               ELSE "none"
    IN  [selected |-> gConn,
         conn |-> IF err = "none" THEN gConn ELSE NoConn,
         err |-> err,
         created |-> walk.found,
         authenticated |-> (err = "none" /\ authenticationEnabled),
         providers |-> walk.providers,
         recent |-> IF err \in {"handshake", "authentication"}
                    THEN discardConnection(recent1, gConn) ELSE recent1]

\* the inputs of one GetConnection call: what each provider yields (a provider
\* can dial a new connection only while connection objects remain), whether
\* the handshake and the authentication succeed
GetInputs ==
    {in \in [yields : [1..Len(providers) -> BOOLEAN], hsOK : BOOLEAN, authOK : BOOLEAN] :
        (nextConn >= MaxConns) => \A i \in 1..Len(providers) : ~in.yields[i]}

\* the effect of the GetConnection body r on the pool, the connections and the
\* counters, for caller t; the deferred Unlock is part of it
ApplyGet(r) ==
    /\ lock' = NoThread
    /\ recentConnections' = r.recent
    /\ providers' = r.providers
    /\ nextConn' = IF r.created THEN nextConn + 1 ELSE nextConn
    /\ connectionsCreated' = IF r.created THEN connectionsCreated + 1 ELSE connectionsCreated
    /\ handshakeDone' = IF r.selected # NoConn /\ r.err # "handshake"
                        THEN [handshakeDone EXCEPT ![r.selected] = TRUE]
                        ELSE handshakeDone
    /\ authenticationDone' = IF r.authenticated
                             THEN [authenticationDone EXCEPT ![r.selected] = TRUE]
                             ELSE authenticationDone
    /\ closed' = IF r.err \in {"handshake", "authentication"}
                 THEN [closed EXCEPT ![r.selected] = TRUE] ELSE closed
    /\ inUse' = IF r.err = "none" THEN [inUse EXCEPT ![r.conn] = TRUE] ELSE inUse
    /\ activeConnections' = IF r.err = "none" THEN activeConnections + 1
                            ELSE activeConnections
    /\ UNCHANGED <<authenticationEnabled, discardedConnections, nextProv, readVars, codecVars>>

(***************************************************************************)
(* The value codec (protobuf.go:597-636 and 689-725). A Go value is its    *)
(* dynamic type and its content; an integer content is the 64-bit two's    *)
(* complement pattern of the number as four 16-bit limbs, most significant *)
(* first, any other content a token in the last limb. A 32-bit field of an *)
(* EncodedValue holds two limbs.                                           *)
(***************************************************************************)
Limb == 2 ^ 16

GoValue(type, v) == [type |-> type, v |-> v]

\* the untyped nil
NilValue == GoValue("nil", <<0, 0, 0, 0>>)

\* a content that is a token rather than a number
Token(n) == <<0, 0, 0, n>>

\* the conversion int32(k): the low 32 bits of the pattern
Int32Of(v) == <<v[3], v[4]>>

\* the number an int32 pattern stands for, as a 64-bit pattern (sign extension)
Widen(w) ==
    IF w[1] >= Limb \div 2 THEN <<Limb - 1, Limb - 1, w[1], w[2]>>
    ELSE <<0, 0, w[1], w[2]>>

\* the conversion uint8(x) of an int32 pattern: its low 8 bits
Uint8Of(w) == <<0, 0, 0, w[2] % 256>>

EncodedValue(kind, v) == [kind |-> kind, v |-> v]

\* protobuf.go:597-636; a struct value carries its JSON text, and whether
\* json.Marshal accepts it
EncodeValue(val) ==
    CASE val.type = "int" -> [ev |-> EncodedValue("IntResult", Int32Of(val.v)), err |-> "nil"]
      [] val.type = "int16" -> [ev |-> EncodedValue("ShortResult", Int32Of(val.v)), err |-> "nil"]
      [] val.type = "int32" -> [ev |-> EncodedValue("IntResult", Int32Of(val.v)), err |-> "nil"]
      [] val.type = "int64" -> [ev |-> EncodedValue("LongResult", val.v), err |-> "nil"]
      [] val.type = "uint8" -> [ev |-> EncodedValue("ByteResult", Int32Of(val.v)), err |-> "nil"]
      [] val.type = "bool" -> [ev |-> EncodedValue("BooleanResult", val.v), err |-> "nil"]
      [] val.type = "float64" -> [ev |-> EncodedValue("DoubleResult", val.v), err |-> "nil"]
      [] val.type = "float32" -> [ev |-> EncodedValue("FloatResult", val.v), err |-> "nil"]
      [] val.type = "[]uint8" -> [ev |-> EncodedValue("BinaryResult", val.v), err |-> "nil"]
      [] val.type = "string" -> [ev |-> EncodedValue("StringResult", val.v), err |-> "nil"]
      [] val.type = "nil" -> [ev |-> EncodedValue("NullResult", val.v), err |-> "nil"]
      [] val.type = "struct" -> [ev |-> EncodedValue("JsonObjectResult", val.v), err |-> "nil"]
      [] OTHER -> [ev |-> EncodedValue("none", val.v), err |-> "json: unsupported type"]

\* protobuf.go:689-725; ref is "nil" or "pointer": json.Unmarshal fails with a
\* nil ref, and fills the struct ref points to otherwise
DecodeValue(value, ref) ==
    CASE value.kind = "IntResult" -> [val |-> GoValue("int32", Widen(value.v)), err |-> "nil"]
      [] value.kind = "ShortResult" -> [val |-> GoValue("int32", Widen(value.v)), err |-> "nil"]
      [] value.kind = "LongResult" -> [val |-> GoValue("int64", value.v), err |-> "nil"]
      [] value.kind = "ByteResult" -> [val |-> GoValue("uint8", Uint8Of(value.v)), err |-> "nil"]
      [] value.kind = "BooleanResult" -> [val |-> GoValue("bool", value.v), err |-> "nil"]
      [] value.kind = "DoubleResult" -> [val |-> GoValue("float64", value.v), err |-> "nil"]
      [] value.kind = "FloatResult" -> [val |-> GoValue("float32", value.v), err |-> "nil"]
      [] value.kind = "BinaryResult" -> [val |-> GoValue("[]uint8", value.v), err |-> "nil"]
      [] value.kind = "StringResult" -> [val |-> GoValue("string", value.v), err |-> "nil"]
      [] value.kind = "JsonObjectResult" ->
            IF ref = "nil" THEN [val |-> NilValue, err |-> "json: Unmarshal(nil)"]
            ELSE [val |-> GoValue("struct", value.v), err |-> "nil"]
      [] value.kind = "NullResult" -> [val |-> NilValue, err |-> "nil"]
      [] OTHER -> [val |-> NilValue, err |-> "unable to decode type"]

\* EncodeValue, DecodeValue or GetAll has not been called
NotEncoded == [called |-> FALSE, ev |-> EncodedValue("NullResult", Token(0)), err |-> "nil"]

NotDecoded == [called |-> FALSE, val |-> NilValue, err |-> "nil"]

NoResponse == [entries |-> <<>>, failures |-> <<>>]

NotGot == [called |-> FALSE, entries |-> <<>>, failures |-> <<>>, err |-> "nil"]

CodecIdle ==
    /\ cvIn = NilValue
    /\ cvRef = "nil"
    /\ cvEnc = NotEncoded
    /\ cvOut = NotDecoded
    /\ gaResp = NoResponse
    /\ gaOut = NotGot

(***************************************************************************)
(* The initial state: NewPool(), no connection object yet, every caller    *)
(* outside the pool.                                                       *)
(***************************************************************************)
\* a slice no AddConnection / AddServer call has loaded
NotLoaded == [busy |-> FALSE, slice |-> <<>>]

\* readRawMessage has not been called
NotRead == [called |-> FALSE, data |-> <<>>, err |-> "nil", retryable |-> FALSE]

PoolInit ==
    /\ recentConnections = <<>>
    /\ providers = <<>>
    /\ authenticationEnabled = FALSE
    /\ lock = NoThread
    /\ inUse = [c \in Conns |-> FALSE]
    /\ handshakeDone = [c \in Conns |-> FALSE]
    /\ authenticationDone = [c \in Conns |-> FALSE]
    /\ closed = [c \in Conns |-> FALSE]
    /\ activeConnections = 0
    /\ connectionsCreated = 0
    /\ discardedConnections = 0
    /\ nextConn = 0
    /\ nextProv = 0
    /\ pc = [t \in Threads |-> "idle"]
    /\ acq = [t \in Threads |-> <<>>]
    /\ outs = [t \in Threads |-> <<>>]
    /\ depth = [t \in Threads |-> 0]
    /\ result = [t \in Threads |-> "none"]
    /\ addSnap = NotLoaded
    /\ provSnap = NotLoaded
    /\ bothCalled = FALSE

Init ==
    /\ PoolInit
    /\ rdLen = 0
    /\ rdFirst = 0
    /\ rdAvail = 0
    /\ rdEnd = "EOF"
    /\ rdOut = NotRead
    /\ CodecIdle

(***************************************************************************)
(* Registration: AddConnection, AddServer, AddCredentials. None of them    *)
(* takes the pool lock.                                                    *)
(***************************************************************************)
\* an AddConnection that counts the registered connection as created
AddConnectionCounted(hsDone) ==
    /\ nextConn < MaxConns
    /\ nextConn' = nextConn + 1
    /\ recentConnections' = Append(recentConnections, nextConn + 1)
    /\ handshakeDone' = [handshakeDone EXCEPT ![nextConn + 1] = hsDone]
    /\ connectionsCreated' = connectionsCreated + 1
    /\ UNCHANGED <<providers, authenticationEnabled, lock, inUse, authenticationDone,
                   closed, activeConnections, discardedConnections, nextProv, callerVars,
                   raceVars, readVars, codecVars, histVars>>

\* pool.go:39-48, the whole call without another goroutine in between
AddConnection(hsDone) ==
    /\ nextConn < MaxConns
    /\ nextConn' = nextConn + 1
    /\ recentConnections' = Append(recentConnections, nextConn + 1)
    /\ handshakeDone' = [handshakeDone EXCEPT ![nextConn + 1] = hsDone]
    /\ UNCHANGED <<providers, authenticationEnabled, lock, inUse, authenticationDone,
                   closed, counterVars, nextProv, callerVars, raceVars, readVars, codecVars, histVars>>

\* pool.go:54-59
AddServer ==
    /\ nextProv < MaxProviders
    /\ nextProv' = nextProv + 1
    /\ providers' = Append(providers, nextProv + 1)
    /\ UNCHANGED <<recentConnections, authenticationEnabled, lock, connVars,
                   counterVars, nextConn, callerVars, raceVars, readVars, codecVars, histVars>>

\* pool.go:143-147
AddCredentials ==
    /\ ~authenticationEnabled
    /\ authenticationEnabled' = TRUE
    /\ UNCHANGED <<recentConnections, providers, lock, connVars, counterVars,
                   allocVars, callerVars, raceVars, readVars, codecVars, histVars>>

(***************************************************************************)
(* this.Lock() of GetConnection, ReturnConnection and DiscardConnection:   *)
(* the caller at position from proceeds to position to with the lock.      *)
(***************************************************************************)
Lock(t, from, to) ==
    /\ pc[t] = from
    /\ lock = NoThread
    /\ lock' = t
    /\ pc' = [pc EXCEPT ![t] = to]

\* a ReturnConnection that forgets to clear the in-use flag
ReturnConnectionKeepsInUse(gConn) ==
    /\ activeConnections' = activeConnections - 1
    /\ lock' = NoThread
    /\ bothCalled' = (bothCalled \/ closed[gConn])
    /\ UNCHANGED <<recentConnections, providers, authenticationEnabled, connVars,
                   connectionsCreated, discardedConnections, allocVars, raceVars, readVars, codecVars>>

\* a ReturnConnection without the deferred Unlock
ReturnConnectionKeepsLock(gConn) ==
    /\ inUse' = [inUse EXCEPT ![gConn] = FALSE]
    /\ activeConnections' = activeConnections - 1
    /\ lock' = lock
    /\ bothCalled' = (bothCalled \/ closed[gConn])
    /\ UNCHANGED <<recentConnections, providers, authenticationEnabled, handshakeDone,
                   authenticationDone, closed, connectionsCreated, discardedConnections,
                   allocVars, raceVars, readVars, codecVars>>

\* pool.go:114-120: the body of ReturnConnection and its deferred Unlock
ReturnConnection(gConn) ==
    /\ inUse' = [inUse EXCEPT ![gConn] = FALSE]
    /\ activeConnections' = activeConnections - 1
    /\ lock' = NoThread
    /\ bothCalled' = (bothCalled \/ closed[gConn])
    /\ UNCHANGED <<recentConnections, providers, authenticationEnabled, handshakeDone,
                   authenticationDone, closed, connectionsCreated, discardedConnections,
                   allocVars, raceVars, readVars, codecVars>>

\* a DiscardConnection that hands the connection back to the pool instead of
\* removing it
DiscardConnectionReleases(gConn) ==
    /\ inUse' = [inUse EXCEPT ![gConn] = FALSE]
    /\ lock' = NoThread
    /\ UNCHANGED <<recentConnections, providers, authenticationEnabled, handshakeDone,
                   authenticationDone, closed, counterVars, allocVars, raceVars, readVars,
                   codecVars, histVars>>

\* pool.go:135-138: DiscardConnection up to its Unlock
DiscardConnection(gConn) ==
    /\ recentConnections' = discardConnection(recentConnections, gConn)
    /\ closed' = [closed EXCEPT ![gConn] = TRUE]
    /\ lock' = NoThread
    /\ UNCHANGED <<providers, authenticationEnabled, inUse, handshakeDone,
                   authenticationDone, counterVars, allocVars, raceVars, readVars, codecVars, histVars>>

\* pool.go:140: discardedConnections.Add(1), after which the call is complete
DiscardCount ==
    /\ discardedConnections' = discardedConnections + 1
    /\ UNCHANGED <<poolVars, connVars, activeConnections, connectionsCreated,
                   allocVars, raceVars, readVars, codecVars, histVars>>

(***************************************************************************)
(* A caller that uses the pool directly: GetConnection, then either        *)
(* ReturnConnection or DiscardConnection on the connection it got.         *)
(***************************************************************************)
ClientGetLock(t) ==
    /\ Lock(t, "idle", "get")
    /\ UNCHANGED <<recentConnections, providers, authenticationEnabled, connVars,
                   counterVars, allocVars, acq, outs, depth, result, raceVars, readVars, codecVars, histVars>>

ClientGet(t) ==
    /\ pc[t] = "get"
    /\ \E in \in GetInputs :
          LET r == GetConnection(in.yields, in.hsOK, in.authOK)
          IN  /\ ApplyGet(r)
              /\ pc' = [pc EXCEPT ![t] = IF r.err = "none" THEN "hold" ELSE "idle"]
              /\ acq' = [acq EXCEPT ![t] = IF r.err = "none" THEN <<r.conn>> ELSE <<>>]
              /\ result' = [result EXCEPT ![t] = r.err]
    /\ UNCHANGED <<outs, depth, raceVars, readVars, codecVars, histVars>>

ClientReturnLock(t) ==
    /\ Lock(t, "hold", "ret")
    /\ UNCHANGED <<recentConnections, providers, authenticationEnabled, connVars,
                   counterVars, allocVars, acq, outs, depth, result, raceVars, readVars, codecVars, histVars>>

ClientReturn(t) ==
    /\ pc[t] = "ret"
    /\ ReturnConnection(acq[t][1])
    /\ pc' = [pc EXCEPT ![t] = "idle"]
    /\ acq' = [acq EXCEPT ![t] = <<>>]
    /\ UNCHANGED <<outs, depth, result>>

ClientDiscardLock(t) ==
    /\ Lock(t, "hold", "disc")
    /\ UNCHANGED <<recentConnections, providers, authenticationEnabled, connVars,
                   counterVars, allocVars, acq, outs, depth, result, raceVars, readVars, codecVars, histVars>>

ClientDiscard(t) ==
    /\ pc[t] = "disc"
    /\ DiscardConnection(acq[t][1])
    /\ pc' = [pc EXCEPT ![t] = "disc_count"]
    /\ UNCHANGED <<acq, outs, depth, result>>

ClientDiscardCount(t) ==
    /\ pc[t] = "disc_count"
    /\ DiscardCount
    /\ pc' = [pc EXCEPT ![t] = "idle"]
    /\ acq' = [acq EXCEPT ![t] = <<>>]
    /\ UNCHANGED <<outs, depth, result>>

(***************************************************************************)
(* One request/response exchange on a connection. An exchange x says what  *)
(* the transport and the server do: whether the request encodes, the error *)
(* of connection.Write, the text of the error of reading the raw message,  *)
(* whether the response decodes, whether it is an ErrorResponse.           *)
(***************************************************************************)
NoError == "nil"

\* a *net.OpError with the given Op
OpError(op) == [type |-> "OpError", op |-> op]

\* an error of any other type
OtherError == [type |-> "error", op |-> ""]

NoWriteError == [type |-> "nil", op |-> ""]

Exchange(enc, w, r, dec, app) ==
    [encodes |-> enc, writeErr |-> w, readErr |-> r, decodes |-> dec, errorResponse |-> app]

Succeeds == Exchange(TRUE, NoWriteError, NoError, TRUE, FALSE)

Exchanges ==
    { Succeeds,
      Exchange(FALSE, NoWriteError, NoError, TRUE, FALSE),
      Exchange(TRUE, OpError("write"), NoError, TRUE, FALSE),
      Exchange(TRUE, OpError("set"), NoError, TRUE, FALSE),
      Exchange(TRUE, OtherError, NoError, TRUE, FALSE),
      Exchange(TRUE, NoWriteError, "EOF", TRUE, FALSE),
      Exchange(TRUE, NoWriteError, "unexpected EOF", TRUE, FALSE),
      Exchange(TRUE, NoWriteError, "i/o timeout", TRUE, FALSE),
      Exchange(TRUE, NoWriteError, NoError, FALSE, FALSE),
      Exchange(TRUE, NoWriteError, NoError, TRUE, TRUE) }

\* one exchange of each kind of end: a response, a retryable error, an error
SomeExchanges ==
    { Succeeds,
      Exchange(TRUE, NoWriteError, "EOF", TRUE, FALSE),
      Exchange(TRUE, NoWriteError, NoError, TRUE, TRUE) }

\* an error value: its text and whether it is a *RetryableError
Error(text, retryable) == [err |-> text, retryable |-> retryable]

Nil == Error(NoError, FALSE)

\* protobuf.go:531-550
writeMessage(x) ==
    IF ~x.encodes THEN Error("encode", FALSE)
    ELSE IF x.writeErr.type = "nil" THEN Nil
    ELSE IF x.writeErr.type = "OpError" /\ x.writeErr.op = "write"
         THEN Error("write", TRUE)
    ELSE Error("write", FALSE)

\* protobuf.go:552-566: the error of readRawMessage, else that of DecodeMessage
readResponse(x) ==
    IF x.readErr # NoError THEN Error(x.readErr, FALSE)
    ELSE IF ~x.decodes THEN Error("decode", FALSE)
    ELSE Nil

\* a classification that wraps every read error as retryable
doOperationWithConnectionAnyRead(x) ==
    LET w == writeMessage(x)
        r == readResponse(x)
    IN  IF w # Nil THEN w
        ELSE IF r # Nil THEN Error(r.err, TRUE)
        ELSE IF x.errorResponse THEN Error("error response", FALSE)
        ELSE Nil

\* protobuf.go:506-529
doOperationWithConnection(x) ==
    LET w == writeMessage(x)
        r == readResponse(x)
    IN  IF w # Nil THEN w
        ELSE IF r # Nil
             THEN IF r.err = "EOF" THEN Error(r.err, TRUE) ELSE r
        ELSE IF x.errorResponse THEN Error("error response", FALSE)
        ELSE Nil

(***************************************************************************)
(* Protobuf.doOperation (protobuf.go:485-504), for caller t. Each attempt  *)
(* is one activation of doOperation; the deferred ReturnConnection calls   *)
(* of the activations run innermost first when the result is returned.     *)
(***************************************************************************)
\* protobuf.go:486, entered from outside (a new operation) or from line 498
DoOperationGetLock(t) ==
    /\ \/ Lock(t, "idle", "e_get")
       \/ Lock(t, "e_retry", "e_get")
    /\ acq' = [acq EXCEPT ![t] = IF pc[t] = "idle" THEN <<>> ELSE acq[t]]
    /\ outs' = [outs EXCEPT ![t] = IF pc[t] = "idle" THEN <<>> ELSE outs[t]]
    /\ result' = [result EXCEPT ![t] = "none"]
    /\ UNCHANGED <<recentConnections, providers, authenticationEnabled, connVars,
                   counterVars, allocVars, depth, raceVars, readVars, codecVars, histVars>>

\* protobuf.go:486-490: GetConnection; on an error doOperation returns it, on
\* success the ReturnConnection is deferred
DoOperationGet(t) ==
    /\ pc[t] = "e_get"
    /\ \E in \in GetInputs :
          LET r == GetConnection(in.yields, in.hsOK, in.authOK)
          IN  /\ ApplyGet(r)
              /\ IF r.err = "none"
                 THEN /\ pc' = [pc EXCEPT ![t] = "e_io"]
                      /\ acq' = [acq EXCEPT ![t] = Append(acq[t], r.conn)]
                      /\ depth' = [depth EXCEPT ![t] = depth[t] + 1]
                      /\ UNCHANGED <<result, outs>>
                 ELSE /\ result' = [result EXCEPT ![t] = r.err]
                      /\ pc' = [pc EXCEPT ![t] = IF depth[t] = 0 THEN "idle" ELSE "e_unwind"]
                      /\ acq' = [acq EXCEPT ![t] = IF depth[t] = 0 THEN <<>> ELSE acq[t]]
                      /\ outs' = [outs EXCEPT ![t] = IF depth[t] = 0 THEN <<>> ELSE outs[t]]
                      /\ UNCHANGED depth
    /\ UNCHANGED <<raceVars, readVars, codecVars, histVars>>

\* protobuf.go:492-495 and 502-503: the exchange; without an error the
\* response is returned, with one DiscardConnection is called
DoOperationExchange(t, x) ==
    /\ pc[t] = "e_io"
    /\ LET e == doOperationWithConnection(x)
       IN  /\ outs' = [outs EXCEPT ![t] = Append(outs[t], x)]
           /\ pc' = [pc EXCEPT ![t] = IF e = Nil THEN "e_unwind" ELSE "e_fail"]
           /\ result' = [result EXCEPT ![t] = IF e = Nil THEN "ok" ELSE result[t]]
    /\ UNCHANGED <<poolVars, connVars, counterVars, allocVars, acq, depth, raceVars,
                   readVars, codecVars, histVars>>

DoOperationDiscardLock(t) ==
    /\ Lock(t, "e_fail", "e_disc")
    /\ UNCHANGED <<recentConnections, providers, authenticationEnabled, connVars,
                   counterVars, allocVars, acq, outs, depth, result, raceVars, readVars, codecVars, histVars>>

\* protobuf.go:494
DoOperationDiscard(t) ==
    /\ pc[t] = "e_disc"
    /\ DiscardConnection(Last(acq[t]))
    /\ pc' = [pc EXCEPT ![t] = "e_disc_count"]
    /\ UNCHANGED <<acq, outs, depth, result>>

\* protobuf.go:497-501: after the discard a *RetryableError starts the
\* operation again, any other error is returned
DoOperationDiscardCount(t) ==
    /\ pc[t] = "e_disc_count"
    /\ DiscardCount
    /\ LET e == doOperationWithConnection(Last(outs[t]))
       IN  IF e.retryable
           THEN /\ pc' = [pc EXCEPT ![t] = "e_retry"]
                /\ UNCHANGED result
           ELSE /\ pc' = [pc EXCEPT ![t] = "e_unwind"]
                /\ result' = [result EXCEPT ![t] = e.err]
    /\ UNCHANGED <<acq, outs, depth>>

DoOperationReturnLock(t) ==
    /\ Lock(t, "e_unwind", "e_ret")
    /\ UNCHANGED <<recentConnections, providers, authenticationEnabled, connVars,
                   counterVars, allocVars, acq, outs, depth, result, raceVars, readVars, codecVars, histVars>>

\* protobuf.go:490: the deferred ReturnConnection of the innermost activation
\* still open; after the outermost one doOperation has returned
DoOperationReturn(t) ==
    /\ pc[t] = "e_ret"
    /\ ReturnConnection(acq[t][depth[t]])
    /\ depth' = [depth EXCEPT ![t] = depth[t] - 1]
    /\ pc' = [pc EXCEPT ![t] = IF depth[t] = 1 THEN "idle" ELSE "e_unwind"]
    /\ acq' = [acq EXCEPT ![t] = IF depth[t] = 1 THEN <<>> ELSE acq[t]]
    /\ outs' = [outs EXCEPT ![t] = IF depth[t] = 1 THEN <<>> ELSE outs[t]]
    /\ result' = [result EXCEPT ![t] = IF depth[t] = 1 THEN "none" ELSE result[t]]

(***************************************************************************)
(* The specification: registration calls do not overlap other pool calls.  *)
(***************************************************************************)
Next ==
    \/ \E hsDone \in BOOLEAN : AddConnection(hsDone)
    \/ AddServer
    \/ AddCredentials
    \/ \E t \in Threads : ClientGetLock(t)
    \/ \E t \in Threads : ClientGet(t)
    \/ \E t \in Threads : ClientReturnLock(t)
    \/ \E t \in Threads : ClientReturn(t)
    \/ \E t \in Threads : ClientDiscardLock(t)
    \/ \E t \in Threads : ClientDiscard(t)
    \/ \E t \in Threads : ClientDiscardCount(t)
    \/ \E t \in Threads : DoOperationGetLock(t)
    \/ \E t \in Threads : DoOperationGet(t)
    \/ \E t \in Threads : \E x \in SomeExchanges : DoOperationExchange(t, x)
    \/ \E t \in Threads : DoOperationDiscardLock(t)
    \/ \E t \in Threads : DoOperationDiscard(t)
    \/ \E t \in Threads : DoOperationDiscardCount(t)
    \/ \E t \in Threads : DoOperationReturnLock(t)
    \/ \E t \in Threads : DoOperationReturn(t)

Spec == Init /\ [][Next]_vars

(***************************************************************************)
(* AddConnection and AddServer on a goroutine of their own. They take no   *)
(* lock, so the load of the slice and the store of the appended slice are  *)
(* two steps other callers may come between.                               *)
(***************************************************************************)
\* pool.go:47, the read of this.recentConnections
AddConnectionLoad ==
    /\ ~addSnap.busy
    /\ addSnap' = [busy |-> TRUE, slice |-> recentConnections]
    /\ UNCHANGED <<poolVars, connVars, counterVars, allocVars, callerVars, provSnap,
                   readVars, codecVars, histVars>>

\* pool.go:47, the write of this.recentConnections
AddConnectionStore(hsDone) ==
    /\ addSnap.busy
    /\ nextConn < MaxConns
    /\ nextConn' = nextConn + 1
    /\ recentConnections' = Append(addSnap.slice, nextConn + 1)
    /\ handshakeDone' = [handshakeDone EXCEPT ![nextConn + 1] = hsDone]
    /\ addSnap' = NotLoaded
    /\ UNCHANGED <<providers, authenticationEnabled, lock, inUse, authenticationDone,
                   closed, counterVars, nextProv, callerVars, provSnap, readVars, codecVars, histVars>>

\* pool.go:55, the read of this.providers
AddServerLoad ==
    /\ ~provSnap.busy
    /\ provSnap' = [busy |-> TRUE, slice |-> providers]
    /\ UNCHANGED <<poolVars, connVars, counterVars, allocVars, callerVars, addSnap,
                   readVars, codecVars, histVars>>

\* pool.go:55, the write of this.providers
AddServerStore ==
    /\ provSnap.busy
    /\ nextProv < MaxProviders
    /\ nextProv' = nextProv + 1
    /\ providers' = Append(provSnap.slice, nextProv + 1)
    /\ provSnap' = NotLoaded
    /\ UNCHANGED <<recentConnections, authenticationEnabled, lock, connVars,
                   counterVars, nextConn, callerVars, addSnap, readVars, codecVars, histVars>>

NextRace ==
    \/ \E hsDone \in BOOLEAN : AddConnection(hsDone)
    \/ AddServer
    \/ \E t \in Threads : ClientGetLock(t)
    \/ \E t \in Threads : ClientGet(t)
    \/ \E t \in Threads : ClientReturnLock(t)
    \/ \E t \in Threads : ClientReturn(t)
    \/ \E t \in Threads : ClientDiscardLock(t)
    \/ \E t \in Threads : ClientDiscard(t)
    \/ \E t \in Threads : ClientDiscardCount(t)
    \/ AddConnectionLoad
    \/ \E hsDone \in BOOLEAN : AddConnectionStore(hsDone)
    \/ AddServerLoad
    \/ AddServerStore

\* registration calls run concurrently with the other pool calls
SpecRace == Init /\ [][NextRace]_vars

(***************************************************************************)
(* One caller of doOperation at a time, every kind of exchange.            *)
(***************************************************************************)
Caller == Min(Threads)

NextExec ==
    \/ \E hsDone \in BOOLEAN : AddConnection(hsDone)
    \/ AddServer
    \/ AddCredentials
    \/ DoOperationGetLock(Caller)
    \/ DoOperationGet(Caller)
    \/ \E x \in Exchanges : DoOperationExchange(Caller, x)
    \/ DoOperationDiscardLock(Caller)
    \/ DoOperationDiscard(Caller)
    \/ DoOperationDiscardCount(Caller)
    \/ DoOperationReturnLock(Caller)
    \/ DoOperationReturn(Caller)

SpecExec == Init /\ [][NextExec]_vars

(***************************************************************************)
(* readRawMessage (protobuf.go:568-595) on a connection whose server sends *)
(* one response: the varint of the payload length, then the payload.       *)
(***************************************************************************)
\* protobuf.go:569, the size of the first buffer
BufSize == 4096

\* a varint byte carries 7 bits of the number and a continuation bit
VarintBase == 128

\* bound: payload lengths and read sizes this close to each boundary are tried
Near == 2

\* the length prefix the server writes in front of the payload
RECURSIVE EncodeVarint(_)
EncodeVarint(x) ==
    IF x < VarintBase THEN <<x>>
    ELSE <<(x % VarintBase) + VarintBase>> \o EncodeVarint(x \div VarintBase)

\* the payload bytes, each telling its position
Payload(n) == [i \in 1..n |-> (i * 37 + 11) % 256]

Response(n) == EncodeVarint(n) \o Payload(n)

\* proto.DecodeVarint as called at protobuf.go:576: the bytes of buf from
\* index n on, until one without the continuation bit
RECURSIVE DecodeVarintFrom(_, _, _, _)
DecodeVarintFrom(buf, n, shift, x) ==
    IF shift >= 64 \/ n >= Len(buf) THEN [x |-> 0, n |-> 0]
    ELSE LET b == buf[n + 1]
             x1 == x + (b % VarintBase) * (2 ^ shift)
         IN  IF b < VarintBase THEN [x |-> x1, n |-> n + 1]
             ELSE DecodeVarintFrom(buf, n + 1, shift + 7, x1)

DecodeVarint(buf) == DecodeVarintFrom(buf, 0, 0, 0)

\* io.ReadFull as called at protobuf.go:586: want bytes are asked for while
\* left bytes arrive before the stream ends with the error end
ReadFull(want, left, end) ==
    IF left >= want THEN [n |-> want, err |-> "nil"]
    ELSE IF end = "EOF" THEN [n |-> left, err |-> IF left = 0 THEN "EOF" ELSE "unexpected EOF"]
    ELSE [n |-> left, err |-> end]

\* protobuf.go:568-595: sent are the bytes that arrive, first the most the
\* first Read delivers, end the error once the bytes are used up
readRawMessage(sent, first, end) ==
    IF Len(sent) = 0 THEN [data |-> <<>>, err |-> end]
    ELSE LET bytesRead == Min({first, Len(sent), BufSize})
             data == [i \in 1..BufSize |-> IF i <= bytesRead THEN sent[i] ELSE 0]
             d == DecodeVarint(data)
             messageLength == d.x + d.n
             rest == IF bytesRead < messageLength
                     THEN ReadFull(messageLength - bytesRead, Len(sent) - bytesRead, end)
                     ELSE [n |-> 0, err |-> "nil"]
         IN  IF rest.err # "nil" THEN [data |-> <<>>, err |-> rest.err]
             ELSE [data |-> SubSeq(sent, 1, bytesRead + rest.n), err |-> "nil"]

\* the payload lengths tried: around 0, around the second varint byte, around
\* the buffer size
PayloadLens ==
    (0..Near) \cup ((VarintBase - Near)..(VarintBase + Near))
              \cup ((BufSize - Near - 2)..(BufSize + Near))

\* the sizes of the first read tried for a response of total bytes
FirstReads(total) ==
    {k \in (1..(Near + 1)) \cup ((total - Near)..total) \cup {BufSize} : 1 <= k /\ k <= total}

\* the numbers of bytes that arrive tried: all of them, or the stream ends early
Arrivals(total) ==
    {k \in (0..(Near + 1)) \cup ((total - Near)..total) : 0 <= k /\ k <= total}

InitRead ==
    /\ PoolInit
    /\ rdLen \in PayloadLens
    /\ rdFirst \in FirstReads(Len(Response(rdLen)))
    /\ rdAvail \in Arrivals(Len(Response(rdLen)))
    /\ rdEnd \in {"EOF", "i/o timeout"}
    /\ rdOut = NotRead
    /\ CodecIdle

\* readResponse and doOperationWithConnection on what readRawMessage returns:
\* the exchange whose request was written and whose read ends with err
ReadExchange(err) == Exchange(TRUE, NoWriteError, err, TRUE, FALSE)

ReadRawMessage ==
    /\ ~rdOut.called
    /\ LET r == readRawMessage(SubSeq(Response(rdLen), 1, rdAvail), rdFirst, rdEnd)
       IN  rdOut' = [called |-> TRUE, data |-> r.data, err |-> r.err,
                     retryable |-> doOperationWithConnection(ReadExchange(r.err)).retryable]
    /\ UNCHANGED <<poolVars, connVars, counterVars, allocVars, callerVars, raceVars,
                   rdLen, rdFirst, rdAvail, rdEnd, codecVars, histVars>>

NextRead == ReadRawMessage

SpecRead == InitRead /\ [][NextRead]_vars

(***************************************************************************)
(* Properties.                                                             *)
(***************************************************************************)
\* the connections caller t has checked out: obtained from GetConnection and
\* neither returned nor discarded yet
Holding(t) ==
    IF pc[t] \in {"hold", "ret", "disc"} THEN {acq[t][1]}
    ELSE IF pc[t] \in {"e_io", "e_fail", "e_disc"} THEN {Last(acq[t])}
    ELSE IF pc[t] \in {"e_unwind", "e_ret"} /\ result[t] = "ok" /\ depth[t] = Len(acq[t])
         THEN {Last(acq[t])}
    ELSE {}

CheckedOut == UNION {Holding(t) : t \in Threads}

\* caller t's GetConnection returns in this step
GetReturns(t) == pc[t] \in {"get", "e_get"} /\ pc'[t] # pc[t]

\* caller t's doOperation returns to its caller in this step
DoOperationReturns(t) == pc[t] \in {"e_get", "e_ret"} /\ pc'[t] = "idle"

\* C1: pool exclusivity. At no time do two callers hold the same connection
\* checked out: a connection GetConnection returned is returned to no other
\* caller until its holder has returned it.
C1_PoolExclusivity ==
    \A t1, t2 \in Threads : t1 # t2 => Holding(t1) \cap Holding(t2) = {}

\* two callers have each a pooled connection checked out at the same time
C1_Witness ==
    \E t1, t2 \in Threads :
        /\ t1 # t2
        /\ Holding(t1) # {} /\ Holding(t2) # {}
        /\ Holding(t1) \cup Holding(t2) \subseteq Range(recentConnections)

C3_Exhaustion ==
    [][\A t \in Threads :
          (/\ GetReturns(t)
           /\ lastIdle(recentConnections, inUse) = NoConn
           /\ nextConn' = nextConn)
          => (/\ result'[t] = "unavailable"
              /\ pc'[t] \notin {"hold", "e_io"}
              /\ inUse' = inUse
              /\ providers' = <<>>)]_vars

\* GetConnection has failed for want of a connection after every provider that
\* could be registered was registered, and none is left in the list
C3_Witness ==
    /\ nextProv = MaxProviders
    /\ providers = <<>>
    /\ \E t \in Threads : pc[t] = "idle" /\ result[t] = "unavailable"

\* the exchange x wrote the request and read end-of-stream
ReadsEOF(x) == x.encodes /\ x.writeErr = NoWriteError /\ x.readErr = "EOF"

\* C4: retry trigger. When an attempt reads end-of-stream and the next attempt
\* receives a valid response, doOperation returns success; the two attempts
\* used distinct connections, and the first one was discarded (removed from
\* the pool and closed) before the second GetConnection started.
C4_RetryTrigger ==
    \A t \in Threads :
        /\ (pc[t] \in {"e_retry", "e_get"} /\ acq[t] # <<>>)
              => (closed[Last(acq[t])] /\ Last(acq[t]) \notin Range(recentConnections))
        /\ \A i \in 1..(Len(outs[t]) - 1) :
              (ReadsEOF(outs[t][i]) /\ outs[t][i + 1] = Succeeds)
              => (/\ result[t] = "ok"
                  /\ acq[t][i] # acq[t][i + 1]
                  /\ closed[acq[t][i]]
                  /\ acq[t][i] \notin Range(recentConnections))

\* a doOperation whose first attempt read end-of-stream and whose second
\* attempt succeeded is about to return
C4_Witness ==
    \E t \in Threads :
        /\ pc[t] = "e_unwind"
        /\ Len(outs[t]) = 2
        /\ ReadsEOF(outs[t][1])
        /\ outs[t][2] = Succeeds
        /\ result[t] = "ok"

\* C5: every change of the membership of recentConnections, of the provider
\* list and of an in-use flag is made while the pool lock is held.
C5_MutationsUnderLock ==
    [][(\/ recentConnections' # recentConnections
        \/ providers' # providers
        \/ inUse' # inUse) => lock # NoThread]_vars

\* a connection that was registered and never discarded is missing from
\* recentConnections: a registration was lost
RegistrationLost ==
    \E c \in 1..nextConn : ~closed[c] /\ c \notin Range(recentConnections)

\* C6: as long as no connection received both a ReturnConnection and a
\* DiscardConnection, the active-connections counter equals the number of
\* connections checked out.
C6_ActiveCountsCheckedOut ==
    ~bothCalled => activeConnections = Cardinality(CheckedOut)

\* the exchange x failed in the write phase of the transport
WritePhaseFailure(x) == x.encodes /\ x.writeErr = OpError("write")

\* the failures after which another attempt is made
RetryableFailure(x) == WritePhaseFailure(x) \/ ReadsEOF(x)

\* the error the exchange x ends with
ErrorOf(x) ==
    IF ~x.encodes THEN "encode"
    ELSE IF x.writeErr # NoWriteError THEN "write"
    ELSE IF x.readErr # NoError THEN x.readErr
    ELSE IF ~x.decodes THEN "decode"
    ELSE IF x.errorResponse THEN "error response"
    ELSE "ok"

GetErrors == {"unavailable", "handshake", "authentication"}

\* C7: doOperation makes a further attempt only after a write-phase transport
\* failure or a read end-of-stream: every attempt but the last ended that way.
\* The last attempt's error response, or any other write, read or decode
\* failure, or the error of GetConnection, is what doOperation returns, and
\* each attempt acquired exactly one connection.
C7_RetryOnlyRetryable ==
    \A t \in Threads :
        /\ \A i \in 1..(Len(outs[t]) - 1) : RetryableFailure(outs[t][i])
        /\ pc[t] = "e_retry" => RetryableFailure(Last(outs[t]))
        /\ Len(acq[t]) = Len(outs[t]) + (IF pc[t] = "e_io" THEN 1 ELSE 0)
        /\ pc[t] \in {"e_unwind", "e_ret"} =>
              \/ result[t] \in GetErrors /\ RetryableFailure(Last(outs[t]))
              \/ result[t] = ErrorOf(Last(outs[t])) /\ ~RetryableFailure(Last(outs[t]))

\* doOperation is about to return an error response received on its second
\* attempt, the first having failed in the write phase
C7_Witness ==
    /\ pc[Caller] = "e_unwind"
    /\ Len(outs[Caller]) = 2
    /\ WritePhaseFailure(outs[Caller][1])
    /\ result[Caller] = "error response"

\* the attempt of caller t on its i-th connection succeeded
AttemptSucceeded(t, i) == i <= Len(outs[t]) /\ doOperationWithConnection(outs[t][i]) = Nil

ReturnsSuccessful(t) ==
    pc[t] = "e_ret" /\ pc'[t] # "e_ret" /\ depth[t] = Len(acq[t]) /\ result[t] = "ok"

\* The disposition with other callers sharing the pool: the connection of a
\* failed attempt is removed from membership and closed before the next
\* GetConnection starts or the error is returned, and is not marked in use
\* once doOperation has returned; the connection of the successful attempt is
\* an idle member of the pool when its deferred ReturnConnection has run, and
\* when doOperation returns it still is one unless another caller has checked
\* it out since (and holds it or has discarded it).
SharedDisposition ==
    [][\A t \in Threads :
          /\ ReturnsSuccessful(t) =>
                LET c == Last(acq[t])
                IN  c \in Range(recentConnections') /\ ~inUse'[c]
          /\ (pc'[t] \in {"e_retry", "e_get", "e_unwind", "e_ret"}) =>
                \A i \in 1..Len(acq'[t]) :
                    (i <= Len(outs'[t]) /\ ~AttemptSucceeded(t, i)')
                    => (acq'[t][i] \notin Range(recentConnections') /\ closed'[acq'[t][i]])
          /\ DoOperationReturns(t) =>
                \A i \in 1..Len(acq[t]) :
                    LET c == acq[t][i]
                    IN  IF AttemptSucceeded(t, i)
                        THEN \/ c \in Range(recentConnections') /\ ~inUse'[c]
                             \/ \E u \in Threads \ {t} : c \in Holding(u)'
                             \/ closed'[c]
                        ELSE /\ ~inUse'[c]
                             /\ c \notin Range(recentConnections')
                             /\ closed'[c]]_vars

\* a doOperation that succeeded on its second attempt has returned that
\* connection and still has to return the first one, and meanwhile another
\* caller has checked the second connection out
SharedDispositionCase ==
    \E t \in Threads :
        /\ pc[t] = "e_unwind"
        /\ Len(acq[t]) = 2
        /\ depth[t] = 1
        /\ result[t] = "ok"
        /\ \E u \in Threads \ {t} : acq[t][2] \in Holding(u)

\* C9: an end of the stream met while the response is read, at the first read
\* or at a later one, with or without bytes already received, is classified
\* retryable; every other read error is not.
C9_EndOfStreamRetryable ==
    (rdOut.called /\ rdOut.err # "nil") => (rdOut.retryable <=> rdEnd = "EOF")

\* C10: when the whole response arrives, however the first read cuts it,
\* readRawMessage returns the bytes of the length prefix followed by those of
\* the payload.
C10_FramedRead ==
    (rdOut.called /\ rdAvail = Len(Response(rdLen)))
        => (rdOut.err = "nil" /\ rdOut.data = Response(rdLen))

(***************************************************************************)
(* Failures inside GetConnection.                                          *)
(***************************************************************************)
\* caller t's GetConnection returns the error e in this step
GetFails(t, e) == GetReturns(t) /\ result'[t] = e

\* in this step exactly connection c is closed and leaves the membership, the
\* other members keep their order, and nothing is marked in use or counted
\* as active
DiscardedInGet(c) ==
    /\ ~closed[c]
    /\ closed' = [closed EXCEPT ![c] = TRUE]
    /\ c \notin Range(recentConnections')
    /\ recentConnections' = SelectSeq(recentConnections, LAMBDA d : d # c)
    /\ inUse' = inUse
    /\ ~inUse'[c]
    /\ activeConnections' = activeConnections

\* C11: when the handshake of the connection GetConnection selected fails, be
\* it an idle pooled connection or one a provider just yielded, that connection
\* leaves the membership and is closed, the handshake error is returned with no
\* connection handed out and no other connection tried, no connection is marked
\* in use and the active-connections counter is unchanged.
C11_HandshakeFailure ==
    [][\A t \in Threads :
          GetFails(t, "handshake") =>
              /\ \E c \in Conns : DiscardedInGet(c)
              /\ handshakeDone' = handshakeDone
              /\ authenticationDone' = authenticationDone
              /\ nextConn' <= nextConn + 1
              /\ Len(acq'[t]) <= Len(acq[t])]_vars

\* GetConnection has just failed in the handshake of an idle connection that
\* AddConnection had registered: no provider ever yielded one
C11_Witness ==
    \E t \in Threads :
        /\ pc[t] = "idle"
        /\ result[t] = "handshake"
        /\ connectionsCreated = 0
        /\ \E c \in Conns : closed[c] /\ c \notin Range(recentConnections) /\ ~inUse[c]
        /\ discardedConnections = 0

\* GetConnection has just failed in the handshake of a connection a provider
\* yielded in the same call
C11_FreshCase ==
    \E t \in Threads :
        /\ pc[t] = "idle"
        /\ result[t] = "handshake"
        /\ connectionsCreated = 1
        /\ nextConn = 1
        /\ closed[1]

\* C12: once AddCredentials has been called, every connection a successful
\* GetConnection returns has completed authentication, whenever it was
\* registered, created or checked out before; when the authentication fails
\* the connection is discarded, the error is returned and the connection is
\* not marked in use.
C12_AuthenticationAfterCredentials ==
    [][\A t \in Threads :
          (GetReturns(t) /\ authenticationEnabled) =>
              /\ result'[t] = "none" =>
                    /\ acq'[t] # <<>>
                    /\ authenticationDone'[Last(acq'[t])]
                    /\ inUse'[Last(acq'[t])]
              /\ result'[t] = "authentication" =>
                    /\ \E c \in Conns : DiscardedInGet(c) /\ ~authenticationDone'[c]
                    /\ Len(acq'[t]) <= Len(acq[t])]_vars

\* with credentials stored, one caller holds an authenticated connection while
\* another still holds one it checked out before AddCredentials, which is not
\* authenticated
C12_Witness ==
    /\ authenticationEnabled
    /\ \E t, u \in Threads :
          /\ t # u
          /\ pc[t] = "hold" /\ authenticationDone[acq[t][1]]
          /\ pc[u] = "hold" /\ ~authenticationDone[acq[u][1]]

\* GetConnection has just failed in the authentication of the connection it
\* selected
C12_FailureCase ==
    \E t \in Threads :
        /\ pc[t] = "idle"
        /\ result[t] = "authentication"
        /\ \E c \in Conns : closed[c] /\ handshakeDone[c] /\ ~authenticationDone[c]

(***************************************************************************)
(* EncodeValue followed by DecodeValue on one scalar Go value.             *)
(***************************************************************************)
\* 64-bit patterns around zero, around the ends of the 32-bit range and at
\* the ends of the 64-bit range
Int64Samples ==
    { <<0, 0, 0, 0>>, <<0, 0, 0, 1>>,
      <<Limb - 1, Limb - 1, Limb - 1, Limb - 1>>,
      <<0, 0, Limb \div 2 - 1, Limb - 1>>,
      <<0, 0, Limb \div 2, 0>>,
      <<Limb - 1, Limb - 1, Limb \div 2, 0>>,
      <<Limb - 1, Limb - 1, Limb \div 2 - 1, Limb - 1>>,
      <<0, 1, 0, 0>>, <<0, 1, 0, 5>>,
      <<Limb \div 2 - 1, Limb - 1, Limb - 1, Limb - 1>>,
      <<Limb \div 2, 0, 0, 0>> }

\* those of them an int32 can hold
Int32Samples == {v \in Int64Samples : Widen(Int32Of(v)) = v}

Int16Samples ==
    { <<0, 0, 0, 0>>, <<0, 0, 0, 1>>, <<0, 0, 0, Limb \div 2 - 1>>,
      <<Limb - 1, Limb - 1, Limb - 1, Limb - 1>>,
      <<Limb - 1, Limb - 1, Limb - 1, Limb \div 2>> }

Uint8Samples == {<<0, 0, 0, 0>>, <<0, 0, 0, 1>>, <<0, 0, 0, 127>>, <<0, 0, 0, 128>>, <<0, 0, 0, 255>>}

Tokens == {Token(n) : n \in 1..3}

\* the scalar inputs of EncodeValue: platform int (64-bit), int16, int32,
\* int64, byte, bool, float64, float32, []byte, string
Scalars ==
    {GoValue("int", v) : v \in Int64Samples}
    \cup {GoValue("int16", v) : v \in Int16Samples}
    \cup {GoValue("int32", v) : v \in Int32Samples}
    \cup {GoValue("int64", v) : v \in Int64Samples}
    \cup {GoValue("uint8", v) : v \in Uint8Samples}
    \cup {GoValue("bool", v) : v \in {Token(0), Token(1)}}
    \cup {GoValue(ty, v) : ty \in {"float64", "float32", "[]uint8", "string"}, v \in Tokens}

Refs == {"nil", "pointer"}

InitCodec ==
    /\ PoolInit
    /\ rdLen = 0 /\ rdFirst = 0 /\ rdAvail = 0 /\ rdEnd = "EOF" /\ rdOut = NotRead
    /\ cvIn \in Scalars
    /\ cvRef = "nil"
    /\ cvEnc = NotEncoded
    /\ cvOut = NotDecoded
    /\ gaResp = NoResponse
    /\ gaOut = NotGot

Encode ==
    /\ ~cvEnc.called
    /\ LET e == EncodeValue(cvIn)
       IN  cvEnc' = [called |-> TRUE, ev |-> e.ev, err |-> e.err]
    /\ UNCHANGED <<poolVars, connVars, counterVars, allocVars, callerVars, raceVars,
                   readVars, cvIn, cvRef, cvOut, gaResp, gaOut, histVars>>

Decode(ref) ==
    /\ cvEnc.called /\ cvEnc.err = "nil"
    /\ ~cvOut.called
    /\ cvRef' = ref
    /\ LET d == DecodeValue(cvEnc.ev, ref)
       IN  cvOut' = [called |-> TRUE, val |-> d.val, err |-> d.err]
    /\ UNCHANGED <<poolVars, connVars, counterVars, allocVars, callerVars, raceVars,
                   readVars, cvIn, cvEnc, gaResp, gaOut, histVars>>

NextCodec ==
    \/ Encode
    \/ \E ref \in Refs : Decode(ref)

SpecCodec == InitCodec /\ [][NextCodec]_vars

IntegerTypes == {"int", "int16", "int32", "int64", "uint8"}

\* the values are equal: the same number for two integers whatever their
\* widths, the same type and content otherwise
EqualValues(a, b) ==
    /\ a.v = b.v
    /\ IF a.type \in IntegerTypes THEN b.type \in IntegerTypes ELSE a.type = b.type

\* C14: scalar round trip. For every scalar x that EncodeValue accepts,
\* DecodeValue(EncodeValue(x), template) returns without error a value equal
\* to x, also for a platform int outside the 32-bit range.
C14_ScalarRoundTrip ==
    cvOut.called => (cvOut.err = "nil" /\ EqualValues(cvOut.val, cvIn))

\* apart from platform ints outside the 32-bit range the round trip returns
\* the number or content that went in
RoundTripWithin32Bits ==
    (cvOut.called /\ ~(cvIn.type = "int" /\ Widen(Int32Of(cvIn.v)) # cvIn.v))
    => (cvOut.err = "nil" /\ EqualValues(cvOut.val, cvIn))

(***************************************************************************)
(* Protobuf.GetAll from the response on (protobuf.go:164-196). A Go map is *)
(* a function from the keys it holds.                                      *)
(***************************************************************************)
\* bound: entries of a GetAllResponse
MaxEntries == 3
\* bound: failure records of a GetAllResponse
MaxFailures == 1

\* m[k] = v on a Go map
MapPut(m, k, v) == [x \in (DOMAIN m) \cup {k} |-> IF x = k THEN v ELSE m[x]]

\* a slice cannot be a key of a Go map: the assignment panics
Unhashable(val) == val.type = "[]uint8"

Aborted(err) == [entries |-> <<>>, failures |-> <<>>, err |-> err]

\* protobuf.go:182-195: the loop over the failure records from record i on,
\* then the return
RECURSIVE GetAllFailures(_, _, _, _)
GetAllFailures(fs, i, decodedEntries, decodedFailures) ==
    IF i > Len(fs)
    THEN [entries |-> decodedEntries, failures |-> decodedFailures, err |-> "nil"]
    ELSE LET key == DecodeValue(fs[i].key, "nil")
         IN  IF key.err # "nil"
             THEN Aborted("unable to decode GetAll failure response")
             ELSE IF Unhashable(key.val) THEN Aborted("panic")
             ELSE GetAllFailures(fs, i + 1, decodedEntries,
                                 MapPut(decodedFailures, key.val, "server"))

\* protobuf.go:167-180: the loop over the entries from entry i on
RECURSIVE GetAllEntries(_, _, _, _)
GetAllEntries(resp, i, decodedEntries, decodedFailures) ==
    IF i > Len(resp.entries)
    THEN GetAllFailures(resp.failures, 1, decodedEntries, decodedFailures)
    ELSE LET key == DecodeValue(resp.entries[i].key, "nil")
             value == DecodeValue(resp.entries[i].value, "nil")
         IN  IF key.err # "nil"
             THEN Aborted("unable to decode GetAll response key")
             ELSE IF Unhashable(key.val) THEN Aborted("panic")
             ELSE IF value.err # "nil"
                  THEN GetAllEntries(resp, i + 1, decodedEntries,
                                     MapPut(decodedFailures, key.val, "decode"))
             ELSE GetAllEntries(resp, i + 1,
                                MapPut(decodedEntries, key.val, value.val), decodedFailures)

\* protobuf.go:164-196 on the response of a doOperation that succeeded
GetAll(resp) == GetAllEntries(resp, 1, <<>>, <<>>)

\* keys the server may send back: strings, the JSON text of a struct key, a
\* binary key
ResponseKeys ==
    { EncodedValue("StringResult", Token(1)), EncodedValue("StringResult", Token(2)),
      EncodedValue("JsonObjectResult", Token(1)), EncodedValue("BinaryResult", Token(1)) }

\* values the server may send back: a number, the JSON text of a struct
ResponseValues ==
    { EncodedValue("IntResult", <<0, 7>>), EncodedValue("JsonObjectResult", Token(2)) }

ResponseEntries == [key : ResponseKeys, value : ResponseValues]

ResponseFailures == [key : ResponseKeys]

SeqsUpTo(S, n) == UNION {[1..k -> S] : k \in 0..n}

InitGetAll ==
    /\ PoolInit
    /\ rdLen = 0 /\ rdFirst = 0 /\ rdAvail = 0 /\ rdEnd = "EOF" /\ rdOut = NotRead
    /\ cvIn = NilValue /\ cvRef = "nil" /\ cvEnc = NotEncoded /\ cvOut = NotDecoded
    /\ gaResp \in [entries : SeqsUpTo(ResponseEntries, MaxEntries),
                   failures : SeqsUpTo(ResponseFailures, MaxFailures)]
    /\ gaOut = NotGot

GetAllReturns ==
    /\ ~gaOut.called
    /\ LET r == GetAll(gaResp)
       IN  gaOut' = [called |-> TRUE, entries |-> r.entries, failures |-> r.failures,
                     err |-> r.err]
    /\ UNCHANGED <<poolVars, connVars, counterVars, allocVars, callerVars, raceVars,
                   readVars, cvIn, cvRef, cvEnc, cvOut, gaResp, histVars>>

NextGetAll == GetAllReturns

SpecGetAll == InitGetAll /\ [][NextGetAll]_vars

Decodes(ev) == DecodeValue(ev, "nil").err = "nil"

Decoded(ev) == DecodeValue(ev, "nil").val

\* the entries of the response whose key and value both decode
GoodEntries == {i \in 1..Len(gaResp.entries) :
                   Decodes(gaResp.entries[i].key) /\ Decodes(gaResp.entries[i].value)}

\* the keys the response reports as failed or whose value does not decode
FailingKeys ==
    {Decoded(gaResp.entries[i].key) : i \in {j \in 1..Len(gaResp.entries) :
        Decodes(gaResp.entries[j].key) /\ ~Decodes(gaResp.entries[j].value)}}
    \cup {Decoded(gaResp.failures[i].key) : i \in {j \in 1..Len(gaResp.failures) :
        Decodes(gaResp.failures[j].key)}}

\* C13: batch partial failure. A decode failure of one entry's key or value,
\* or of one failure record, never aborts GetAll: it returns no error, every
\* entry that decodes is in the success mapping and only failing keys are in
\* the failure mapping.
C13_PartialFailure ==
    gaOut.called =>
        /\ gaOut.err = "nil"
        /\ \A i \in GoodEntries : Decoded(gaResp.entries[i].key) \in DOMAIN gaOut.entries
        /\ DOMAIN gaOut.failures \subseteq FailingKeys

\* when every key of the response decodes to a string, a value that does not
\* decode aborts nothing: the other entries are in the success mapping
ValueFailureIsPartial ==
    (/\ gaOut.called
     /\ \A i \in 1..Len(gaResp.entries) : gaResp.entries[i].key.kind = "StringResult"
     /\ \A i \in 1..Len(gaResp.failures) : gaResp.failures[i].key.kind = "StringResult")
    => /\ gaOut.err = "nil"
       /\ \A i \in GoodEntries : Decoded(gaResp.entries[i].key) \in DOMAIN gaOut.entries
       /\ DOMAIN gaOut.failures = FailingKeys

\* C20: the success mapping and the failure mapping GetAll returns share no
\* key, whatever entries and failure records the response holds.
C20_DisjointMappings ==
    gaOut.called => (DOMAIN gaOut.entries) \cap (DOMAIN gaOut.failures) = {}

(***************************************************************************)
(* Selection inside GetConnection.                                         *)
(***************************************************************************)
\* the positions of recentConnections whose connection is not in use
IdlePositions == {i \in 1..Len(recentConnections) : ~inUse[recentConnections[i]]}

\* the connection a GetConnection of caller t that returns in this step had
\* selected: the one it hands out, or the one it closes on a failure
Selected(t, c) ==
    IF result'[t] = "none" THEN acq'[t] # <<>> /\ c = Last(acq'[t])
    ELSE ~closed[c] /\ closed'[c]

\* C15: idle-first selection. Whenever some pooled connection is idle,
\* GetConnection selects an idle pooled connection and consults no provider:
\* the provider list and the created-connections counter are unchanged, no
\* connection is created, and the membership is unchanged unless the handshake
\* or the authentication fails.
C15_IdleFirst ==
    [][\A t \in Threads :
          (GetReturns(t) /\ IdlePositions # {}) =>
              /\ result'[t] \in {"none", "handshake", "authentication"}
              /\ \E i \in IdlePositions : Selected(t, recentConnections[i])
              /\ providers' = providers
              /\ connectionsCreated' = connectionsCreated
              /\ nextConn' = nextConn
              /\ result'[t] = "none" => recentConnections' = recentConnections]_vars

\* a caller holds a pooled connection, every provider ever registered is
\* still in the list and none has created a connection
C15_Witness ==
    \E t \in Threads :
        /\ pc[t] = "hold"
        /\ acq[t][1] \in Range(recentConnections)
        /\ Len(providers) = nextProv
        /\ nextProv > 0
        /\ connectionsCreated = 0
        /\ discardedConnections = 0

\* C16: provider walk. When no pooled connection is idle, GetConnection asks
\* the providers from the most recently added one down, removes each one that
\* yields nothing and stops at the first that yields a connection: the list
\* it leaves is the old list up to the provider that yielded, in the old
\* order, and it is empty exactly when no provider yielded.
C16_ProviderWalk ==
    [][\A t \in Threads :
          (GetReturns(t) /\ IdlePositions = {}) =>
              /\ Len(providers') <= Len(providers)
              /\ providers' = SubSeq(providers, 1, Len(providers'))
              /\ IF nextConn' = nextConn + 1
                 THEN /\ providers' # <<>>
                      /\ result'[t] # "unavailable"
                      /\ Selected(t, nextConn')
                 ELSE /\ nextConn' = nextConn
                      /\ providers' = <<>>
                      /\ result'[t] = "unavailable"]_vars

\* the provider added last has yielded nothing and is gone, the one added
\* before it is still in the list, and a caller holds the connection a
\* provider created
C16_Witness ==
    \E t \in Threads :
        /\ pc[t] = "hold"
        /\ nextProv = 2
        /\ providers = <<1>>
        /\ connectionsCreated = 1
        /\ nextConn = 1
        /\ acq[t] = <<1>>

(***************************************************************************)
(* The counters.                                                           *)
(***************************************************************************)
\* the connections discardConnection has removed and closed
Discarded == {c \in Conns : closed[c]}

\* a DiscardConnection has removed its connection and not yet counted it
CountPending == \E t \in Threads : pc[t] \in {"disc_count", "e_disc_count"}

\* C17: whenever no DiscardConnection call is between its removal and its
\* count, the discarded-connections counter equals the number of connections
\* that discard has removed from the membership, those removed after a failed
\* handshake or authentication in GetConnection included.
C17_DiscardedCount ==
    ~CountPending => discardedConnections = Cardinality(Discarded)

\* the counter equals the number of DiscardConnection calls that have
\* completed on connections; the discards inside GetConnection are not counted
DiscardedCountsPublicCalls ==
    [][/\ discardedConnections' \in {discardedConnections, discardedConnections + 1}
       /\ (discardedConnections' # discardedConnections) <=>
             \E t \in Threads : /\ pc[t] \in {"disc_count", "e_disc_count"}
                                /\ pc'[t] # pc[t]]_vars

\* a provider yields a connection to a GetConnection that returns in this
\* step: the call allocates a connection object
ProviderYields == (\E t \in Threads : GetReturns(t)) /\ nextConn' = nextConn + 1

\* C18: the created-connections counter goes up by one in each step in which
\* a provider yields a connection to GetConnection, also when the handshake or
\* the authentication of that connection then fails, and is changed by no
\* other step: not by AddConnection, by the reuse of an idle connection, by
\* ReturnConnection or by DiscardConnection.
C18_CreatedCount ==
    [][IF ProviderYields THEN connectionsCreated' = connectionsCreated + 1
       ELSE connectionsCreated' = connectionsCreated]_vars

\* the only connection object ever allocated came from a provider and was
\* counted although its handshake failed in the GetConnection that created it
C18_Witness ==
    \E t \in Threads :
        /\ result[t] = "handshake"
        /\ connectionsCreated = 1
        /\ nextConn = 1
        /\ closed[1]
        /\ ~handshakeDone[1]
        /\ activeConnections = 0

\* C19: deterministic tie-break. When pooled connections are idle,
\* GetConnection selects the idle one that stands last in recentConnections,
\* so the pool state fixes the connection selected.
C19_LastIdleSelected ==
    [][\A t \in Threads :
          (GetReturns(t) /\ IdlePositions # {}) =>
              \A c \in Conns :
                  Selected(t, c) <=> c = recentConnections[Max(IdlePositions)]]_vars

\* two connections were registered; the first was never selected by any
\* GetConnection (its handshake is still to do), so it was idle when a caller
\* got the second, which it holds
C19_Witness ==
    \E t \in Threads :
        /\ pc[t] = "hold"
        /\ acq[t] = <<2>>
        /\ recentConnections = <<1, 2>>
        /\ ~handshakeDone[1]
        /\ ~inUse[1]
        /\ connectionsCreated = 0

(***************************************************************************)
(* The retry chain of doOperation.                                         *)
(***************************************************************************)
\* every exchange of caller t's doOperation so far succeeded or failed with a
\* retryable error
OnlyRetryableFailures(t) ==
    \A i \in 1..Len(outs[t]) : AttemptSucceeded(t, i) \/ RetryableFailure(outs[t][i])

\* C21: bounded retry. Each attempt of a doOperation uses a connection none of
\* its earlier attempts used, the connections of the earlier attempts are
\* closed and out of the pool for good, so the attempts are at most as many as
\* the connections the pool could supply; and when no failure but retryable
\* ones occurs the chain ends with success or with the no-connections error.
C21_BoundedRetry ==
    \A t \in Threads :
        /\ \A i, j \in 1..Len(acq[t]) : i # j => acq[t][i] # acq[t][j]
        /\ Len(acq[t]) <= nextConn
        /\ \A i \in 1..(Len(acq[t]) - 1) :
              closed[acq[t][i]] /\ acq[t][i] \notin Range(recentConnections)
        /\ (/\ pc[t] \in {"e_unwind", "e_ret"}
            /\ OnlyRetryableFailures(t)
            /\ result[t] \notin {"handshake", "authentication"})
           => result[t] \in {"ok", "unavailable"}

\* a doOperation has used up every connection the pool could supply, each
\* attempt having failed with a retryable error, and ends with the
\* no-connections error
C21_Witness ==
    \E t \in Threads :
        /\ pc[t] = "e_unwind"
        /\ result[t] = "unavailable"
        /\ Len(acq[t]) = MaxConns
        /\ nextConn = MaxConns
        /\ recentConnections = <<>>
        /\ \A i \in 1..Len(outs[t]) : RetryableFailure(outs[t][i])

(***************************************************************************)
(* Progress. A call that holds the pool lock runs to its Unlock (handshake *)
(* and authentication return), an exchange on a connection returns, and a  *)
(* caller inside doOperation that asks for the lock gets it if the lock is *)
(* free again and again: sync.Mutex hands the lock to a waiter that has    *)
(* waited long (starvation mode).                                          *)
(***************************************************************************)
\* the step of caller t from Lock to Unlock
CriticalStep(t) ==
    \/ ClientGet(t) \/ ClientReturn(t) \/ ClientDiscard(t)
    \/ DoOperationGet(t) \/ DoOperationDiscard(t) \/ DoOperationReturn(t)

\* the steps of caller t outside the lock that always return
ExecuteStep(t) ==
    \/ \E x \in SomeExchanges : DoOperationExchange(t, x)
    \/ DoOperationDiscardCount(t)
    \/ ClientDiscardCount(t)

\* the Lock calls of caller t inside a doOperation: before DiscardConnection,
\* before the GetConnection of a retry, before a deferred ReturnConnection
LockStep(t) ==
    \/ DoOperationDiscardLock(t)
    \/ DoOperationReturnLock(t)
    \/ (pc[t] = "e_retry" /\ DoOperationGetLock(t))

\* the pool calls and doOperation of every caller and the registrations that
\* supply them with connections
NextLive ==
    \/ \E hsDone \in BOOLEAN : AddConnection(hsDone)
    \/ AddServer
    \/ \E t \in Threads : ClientGetLock(t)
    \/ \E t \in Threads : ClientGet(t)
    \/ \E t \in Threads : ClientReturnLock(t)
    \/ \E t \in Threads : ClientReturn(t)
    \/ \E t \in Threads : ClientDiscardLock(t)
    \/ \E t \in Threads : ClientDiscard(t)
    \/ \E t \in Threads : ClientDiscardCount(t)
    \/ \E t \in Threads : DoOperationGetLock(t)
    \/ \E t \in Threads : DoOperationGet(t)
    \/ \E t \in Threads : \E x \in SomeExchanges : DoOperationExchange(t, x)
    \/ \E t \in Threads : DoOperationDiscardLock(t)
    \/ \E t \in Threads : DoOperationDiscard(t)
    \/ \E t \in Threads : DoOperationDiscardCount(t)
    \/ \E t \in Threads : DoOperationReturnLock(t)
    \/ \E t \in Threads : DoOperationReturn(t)

SpecLive ==
    /\ Init /\ [][NextLive]_vars
    /\ \A t \in Threads :
          WF_vars(CriticalStep(t) \/ ExecuteStep(t)) /\ SF_vars(LockStep(t))

\* the positions between a Lock and its Unlock
InCritical == {"get", "ret", "disc", "e_get", "e_disc", "e_ret"}

\* caller t is inside doOperation and its next step is a Lock
Waiting(t) == pc[t] \in {"e_fail", "e_retry", "e_unwind"}

\* caller t is inside a doOperation
Executing(t) ==
    pc[t] \in {"e_get", "e_io", "e_fail", "e_disc", "e_disc_count", "e_retry", "e_unwind", "e_ret"}

\* the lock is held by the callers between a Lock and its Unlock and by no one
\* else
LockHeldInsideCalls == \A t \in Threads : (lock = t) <=> (pc[t] \in InCritical)

\* every doOperation returns
DoOperationTerminates == \A t \in Threads : Executing(t) ~> (pc[t] = "idle")

\* C22: deadlock freedom. The caller that holds the pool lock is inside
\* GetConnection, ReturnConnection or DiscardConnection and never asks for the
\* lock again before its Unlock; the lock is always released again; and a
\* caller inside doOperation that needs the lock, for the discard, the retry
\* or a deferred return, eventually holds it.
C22_DeadlockFreedom ==
    /\ []LockHeldInsideCalls
    /\ (lock # NoThread) ~> (lock = NoThread)
    /\ \A t \in Threads : Waiting(t) ~> (lock = t)

\* one caller holds the lock inside GetConnection while the other, inside a
\* doOperation whose attempt failed, needs the lock for DiscardConnection
C22_Witness ==
    \E t, u \in Threads :
        /\ t # u
        /\ lock = t
        /\ pc[t] \in {"get", "e_get"}
        /\ pc[u] = "e_fail"

====
